---- MODULE Spec2Model ----
(***************************************************************************)
(* ncsum: content-addressed naming of files (src/main.rs).                 *)
(*                                                                         *)
(* A path is a sequence of tokens: the separator "/", name tokens, suffix  *)
(* tokens (".txt", ".ncsum", ".pncsum", ".tncsum") and digest tokens.      *)
(* A file's content is a tagged value: raw bytes, the JSON text of a       *)
(* FileInfo, or a cpio (newc) archive.  md5 is taken to be injective: a    *)
(* digest is the printed form of the byte sequence fed to the context.     *)
(***************************************************************************)
EXTENDS Integers, Sequences, FiniteSets, TLC

VARIABLES
    fs,          \* path -> content, the regular files that exist
    dirs,        \* the directories that exist
    cmd,         \* the subcommand of the running (or last) invocation
    opts,        \* [oo |-> only_show_mismatches, sm |-> separate_mismatches]
    files,       \* the inputs not yet finished; Head(files) is `file`
    pc,          \* position inside the loop body of the current input
    info,        \* the local `info`
    old_name,    \* the local `old_name` of Rename
    new_hash,    \* the local `new_hash` of Check
    pos,         \* index of the next archive entry in Rename's reader loop
    out,         \* lines printed for the current input
    status,      \* "idle", "run", "ok" (exit 0), "exit1", "panic"
    log,         \* one entry per finished input or environment event
    fs0,         \* the files as they were when the current input began
    origPath,    \* the path of the user's file at the start
    origContent, \* its content at the start
    hstream,     \* get_hash: the bytes of the stream
    hoff,        \* get_hash: bytes already returned by read()
    hctx,        \* get_hash: bytes fed to the md5 context so far
    hreads,      \* get_hash: the sizes read() returned, in order
    hpc,         \* get_hash: "loop" or "done"
    hdigest      \* get_hash: the returned string

lvars == <<fs, dirs, cmd, opts, files, pc, info, old_name, new_hash, pos, out,
           status, log, fs0, origPath, origContent>>
hvars == <<hstream, hoff, hctx, hreads, hpc, hdigest>>
vars == <<fs, dirs, cmd, opts, files, pc, info, old_name, new_hash, pos, out,
          status, log, fs0, origPath, origContent,
          hstream, hoff, hctx, hreads, hpc, hdigest>>

(***************************************************************************)
(* Bounds                                                                  *)
(***************************************************************************)
\* length of the read buffer of get_hash (1024 * 1024 in the source)
BufferLen == 2
\* longest file content
MaxLen == 2
\* largest byte value
MaxByte == 1
\* longest stream hashed step by step
MaxStream == 4
\* events (finished inputs, environment events) in one history
MaxLog == 3
\* inputs of one invocation
MaxFiles == 2

Bytes == 0..MaxByte

Min(a, b) == IF a < b THEN a ELSE b

RECURSIVE SeqsUpTo(_, _)
SeqsUpTo(S, n) ==
    IF n = 0 THEN {<<>>}
    ELSE LET T == SeqsUpTo(S, n - 1)
         IN  T \cup {Append(t, b) : t \in {u \in T : Len(u) = n - 1}, b \in S}

Zeros(n) == [i \in 1..n |-> 0]

(***************************************************************************)
(* get_hash                                                                *)
(***************************************************************************)
\* format!("{:x}", ...): the digest string of what the context consumed
Hex(fed) == ToString(fed)

\* one pass of the loop body after a read of s > 0 bytes at offset off:
\* a fresh zeroed buffer receives the s bytes and is consumed whole
ConsumeBuffer(ctx, bytes, off, s) ==
    ctx \o SubSeq(bytes, off + 1, off + s) \o Zeros(BufferLen - s)

\* the context after reading a file: every read fills the buffer until the
\* end of the file is reached
RECURSIVE FeedFull(_, _, _)
FeedFull(ctx, bytes, off) ==
    IF off >= Len(bytes) THEN ctx
    ELSE LET s == Min(BufferLen, Len(bytes) - off)
         IN  FeedFull(ConsumeBuffer(ctx, bytes, off, s), bytes, off + s)

Raw(bytes) == [kind |-> "raw", bytes |-> bytes]
EmptyFile == Raw(<<>>)

\* get_hash over an open file or archive entry holding content c; the text of
\* a record or of an archive is kept as one opaque value
GetHash(c) ==
    IF c.kind = "raw" THEN Hex(FeedFull(<<>>, c.bytes, 0)) ELSE Hex(<<c>>)

\* fd.read(&mut buffer) returns s > 0: any size up to the buffer length
HashRead ==
    /\ hpc = "loop"
    /\ hoff < Len(hstream)
    /\ \E s \in 1..Min(BufferLen, Len(hstream) - hoff) :
          /\ hctx' = ConsumeBuffer(hctx, hstream, hoff, s)
          /\ hoff' = hoff + s
          /\ hreads' = Append(hreads, s)
    /\ UNCHANGED <<hstream, hpc, hdigest>>

\* fd.read returns 0: break, and format the digest
HashEof ==
    /\ hpc = "loop"
    /\ hoff = Len(hstream)
    /\ hpc' = "done"
    /\ hdigest' = Hex(hctx)
    /\ UNCHANGED <<hstream, hoff, hctx, hreads>>

(***************************************************************************)
(* Paths (PathBuf, String)                                                 *)
(***************************************************************************)
SuffixTokens == {".txt", ".ncsum", ".pncsum", ".tncsum"}

Last(p) == p[Len(p)]

\* str::ends_with for a whole-token pattern
EndsWith(p, suf) == p # <<>> /\ Last(p) = suf

\* str::ends_with("ncsum"), the pattern without its dot
EndsWithNcsum(p) == p # <<>> /\ Last(p) \in {".ncsum", ".pncsum", ".tncsum"}

\* str::replace: every occurrence, anywhere in the string
Replace(p, from, to) == [i \in DOMAIN p |-> IF p[i] = from THEN to ELSE p[i]]

LastSlash(p) ==
    LET S == {i \in DOMAIN p : p[i] = "/"}
    IN  IF S = {} THEN 0 ELSE CHOOSE i \in S : \A j \in S : j <= i

\* Path::file_name
HasFileName(p) == p # <<>> /\ Last(p) # "/"
FileName(p) == SubSeq(p, LastSlash(p) + 1, Len(p))

\* Path::parent
HasParent(p) == p # <<>> /\ p # <<"/">>
Parent(p) ==
    LET i == LastSlash(p)
    IN  IF i = 0 THEN <<>> ELSE IF i = 1 THEN <<"/">> ELSE SubSeq(p, 1, i - 1)

\* Path::join
Join(a, b) ==
    IF b # <<>> /\ b[1] = "/" THEN b
    ELSE IF a = <<>> THEN b
    ELSE IF Last(a) = "/" THEN a \o b
    ELSE a \o <<"/">> \o b

\* file_name.rfind('.')
DotPositions(name) == {i \in DOMAIN name : name[i] \in SuffixTokens}
HasSuffix(p) == HasFileName(p) /\ DotPositions(FileName(p)) # {}

\* NCSum::get_suffix: the file name from its last '.' on
GetSuffix(p) ==
    LET name == FileName(p)
        last_dot == CHOOSE i \in DotPositions(name) :
                        \A j \in DotPositions(name) : j <= i
    IN  SubSeq(name, last_dot, Len(name))

(***************************************************************************)
(* FileInfo and its JSON text                                              *)
(***************************************************************************)
\* the placeholder built by Rename and Check: four empty strings
EmptyInfo ==
    [hash |-> "", old_name |-> <<>>, new_name |-> <<>>, ncsum_name |-> <<>>]

\* FileInfo::new once the hash is known
NewInfo(file, file_hash) ==
    [hash |-> file_hash,
     old_name |-> file,
     new_name |-> Join(Parent(file), <<file_hash>> \o GetSuffix(file)),
     ncsum_name |-> Join(Parent(file), <<file_hash, ".ncsum">>)]

\* the outcome of FileInfo::new(file) on the files f
InfoOutcome(f, file) ==
    IF file \notin DOMAIN f THEN "exit1"
    ELSE IF ~HasSuffix(file) THEN "panic"
    ELSE IF ~HasParent(file) THEN "panic"
    ELSE "ok"

FileInfoNew(f, file) == NewInfo(file, GetHash(f[file]))

\* serde_json::to_string(&info)
ToJson(i) == [kind |-> "json", info |-> i]

\* serde_json::from_reader succeeds on the text of a FileInfo only
IsJson(c) == c.kind = "json"
FromJson(c) == c.info

(***************************************************************************)
(* Filesystem calls                                                        *)
(***************************************************************************)
Exists(f, p) == p \in DOMAIN f

Without(f, p) == [q \in DOMAIN f \ {p} |-> f[q]]

\* the files after a write of content c to an open file at p
Put(f, p, c) == [q \in DOMAIN f \cup {p} |-> IF q = p THEN c ELSE f[q]]

\* File::create: needs the parent directory; truncates an existing file
CanCreate(d, p) == HasFileName(p) /\ Parent(p) \in d /\ p \notin d
Create(f, p) == Put(f, p, EmptyFile)

\* std::fs::rename(from, to)
CanRename(f, d, from, to) == Exists(f, from) /\ CanCreate(d, to)
FsRename(f, from, to) ==
    IF from = to THEN f ELSE Put(Without(f, from), to, f[from])

\* std::fs::remove_file
CanRemove(f, p) == Exists(f, p)
Remove(f, p) == Without(f, p)

(***************************************************************************)
(* The process: one invocation runs one subcommand over its inputs         *)
(***************************************************************************)
Prefixes == {<<>>, <<"d", "/">>}
Suffixes == {<<>>, <<".txt">>, <<".ncsum">>, <<".pncsum">>}
OrigPaths == {pre \o <<"a">> \o suf : pre \in Prefixes, suf \in Suffixes}
Contents == {Raw(b) : b \in SeqsUpTo(Bytes, MaxLen)}

NoOpts == [oo |-> FALSE, sm |-> FALSE]

file == Head(files)

Entry(res, o) == [cmd |-> cmd, file |-> file, res |-> res, out |-> o, opts |-> opts]

ClearLocals ==
    /\ info' = EmptyInfo
    /\ old_name' = <<>>
    /\ new_hash' = ""
    /\ pos' = 0
    /\ out' = {}

\* the loop body ends for the current input: on to the next one, or exit 0
Done(res, o) ==
    /\ log' = Append(log, Entry(res, o))
    /\ files' = Tail(files)
    /\ status' = IF Len(files) = 1 THEN "ok" ELSE "run"
    /\ pc' = "begin"
    /\ fs0' = fs'
    /\ ClearLocals
    /\ UNCHANGED <<cmd, opts, origPath, origContent, hvars>>

\* the failure is printed and the loop goes on to the next input
DieContinues(res) ==
    /\ log' = Append(log, Entry(res, out))
    /\ files' = Tail(files)
    /\ status' = IF Len(files) = 1 THEN "ok" ELSE "run"
    /\ pc' = "begin"
    /\ UNCHANGED <<cmd, opts, info, old_name, new_hash, pos, out,
                   fs0, origPath, origContent, hvars>>

\* std::process::exit(1), or a panic: the process ends where it stands
Die(res) ==
    /\ log' = Append(log, Entry(res, out))
    /\ status' = res
    /\ UNCHANGED <<cmd, opts, files, pc, info, old_name, new_hash, pos, out,
                   fs0, origPath, origContent, hvars>>

\* the loop body moves on to position l
Goto(l) ==
    /\ pc' = l
    /\ UNCHANGED <<cmd, opts, files, status, log, fs0, origPath, origContent,
                   hvars>>

Init ==
    /\ origPath \in OrigPaths
    /\ origContent \in Contents
    /\ fs = (origPath :> origContent)
    /\ dirs = {<<>>, <<"d">>}
    /\ cmd = "none"
    /\ opts = NoOpts
    /\ files = <<>>
    /\ pc = "begin"
    /\ info = EmptyInfo
    /\ old_name = <<>>
    /\ new_hash = ""
    /\ pos = 0
    /\ out = {}
    /\ status = "idle"
    /\ log = <<>>
    /\ fs0 = fs
    /\ hstream = <<>>
    /\ hoff = 0
    /\ hctx = <<>>
    /\ hreads = <<>>
    /\ hpc = "off"
    /\ hdigest = ""

Commands == {"Name", "Rename", "Check", "Pack"}

InputLists(f, n) ==
    {<<p>> : p \in DOMAIN f}
        \cup (IF n >= 2 THEN {l \in (DOMAIN f) \X (DOMAIN f) : l[1] # l[2]}
              ELSE {})

\* Args::parse: a new invocation over files that exist
Start ==
    /\ status # "run"
    /\ Len(log) < MaxLog
    /\ \E c \in Commands, l \in InputLists(fs, Min(MaxFiles, MaxLog - Len(log))),
          o \in [oo : BOOLEAN, sm : BOOLEAN] :
          /\ c # "Check" => o = NoOpts
          /\ cmd' = c
          /\ opts' = o
          /\ files' = l
    /\ status' = "run"
    /\ pc' = "begin"
    /\ fs0' = fs
    /\ ClearLocals
    /\ UNCHANGED <<fs, dirs, log, origPath, origContent, hvars>>

(***************************************************************************)
(* Commands::Name                                                          *)
(***************************************************************************)
\* the guard of the loop body
NameGuard(sfname) == ~EndsWith(sfname, ".ncsum") \/ ~EndsWith(sfname, ".pncsum")

\* the sidecar created as soon as the hash is known, before get_suffix
NameBeginCreatesFirst ==
    /\ status = "run" /\ cmd = "Name" /\ pc = "begin"
    /\ UNCHANGED dirs
    /\ IF ~NameGuard(file)
       THEN UNCHANGED fs /\ Done("skip", {})
       ELSE IF InfoOutcome(fs, file) = "exit1"
       THEN UNCHANGED fs /\ Die("exit1")
       ELSE IF InfoOutcome(fs, file) = "panic"
       THEN /\ fs' = Create(fs, Join(Parent(file), <<GetHash(fs[file]), ".ncsum">>))
            /\ Die("panic")
       ELSE /\ info' = FileInfoNew(fs, file)
            /\ UNCHANGED fs
            /\ Goto("name_create")
            /\ UNCHANGED <<old_name, new_hash, pos, out>>

\* the guard, then FileInfo::new(&file)
NameBegin ==
    /\ status = "run" /\ cmd = "Name" /\ pc = "begin"
    /\ UNCHANGED <<fs, dirs>>
    /\ IF ~NameGuard(file)
       THEN Done("skip", {})
       ELSE IF InfoOutcome(fs, file) # "ok"
       THEN Die(InfoOutcome(fs, file))
       ELSE /\ info' = FileInfoNew(fs, file)
            /\ Goto("name_create")
            /\ UNCHANGED <<old_name, new_hash, pos, out>>

\* File::create(info.ncsum_name), panics on failure
NameCreate ==
    /\ status = "run" /\ cmd = "Name" /\ pc = "name_create"
    /\ UNCHANGED dirs
    /\ IF ~CanCreate(dirs, info.ncsum_name)
       THEN UNCHANGED fs /\ Die("panic")
       ELSE /\ fs' = Create(fs, info.ncsum_name)
            /\ Goto("name_write")
            /\ UNCHANGED <<info, old_name, new_hash, pos, out>>

\* ncsum_file.write_all(json.as_bytes())
NameWrite ==
    /\ status = "run" /\ cmd = "Name" /\ pc = "name_write"
    /\ fs' = Put(fs, info.ncsum_name, ToJson(info))
    /\ Goto("name_rename")
    /\ UNCHANGED <<dirs, info, old_name, new_hash, pos, out>>

\* std::fs::rename(info.old_name, info.new_name)
NameRename ==
    /\ status = "run" /\ cmd = "Name" /\ pc = "name_rename"
    /\ UNCHANGED dirs
    /\ IF ~CanRename(fs, dirs, info.old_name, info.new_name)
       THEN UNCHANGED fs /\ Die("exit1")
       ELSE /\ fs' = FsRename(fs, info.old_name, info.new_name)
            /\ Done("ok", {})

(***************************************************************************)
(* cpio (newc) archives                                                    *)
(***************************************************************************)
\* one entry: its name, its bytes, and whether all the bytes its header
\* announces are present in the file
CpioEntry(name, data) == [name |-> name, data |-> data, complete |-> TRUE]

\* write_cpio over the two inputs, then the trailer
Archive(e1, e2) == [kind |-> "cpio", entries |-> <<e1, e2>>, trailer |-> TRUE]

\* the bytes of two writes to one file, one after the other
Concat(c1, c2) ==
    IF c1 = EmptyFile THEN c2
    ELSE IF c2 = EmptyFile THEN c1
    ELSE IF c1.kind = "raw" /\ c2.kind = "raw" THEN Raw(c1.bytes \o c2.bytes)
    ELSE [kind |-> "cat", parts |-> <<c1, c2>>]

(***************************************************************************)
(* Commands::Rename                                                        *)
(***************************************************************************)
TmpName(sfname) == Replace(sfname, ".pncsum", ".tncsum")

\* the suffix dispatch; the .ncsum branch opens and decodes the sidecar
RenameBegin ==
    /\ status = "run" /\ cmd = "Rename" /\ pc = "begin"
    /\ UNCHANGED <<fs, dirs, new_hash, pos, out>>
    /\ IF EndsWith(file, ".ncsum")
       THEN IF ~Exists(fs, file) \/ ~IsJson(fs[file])
            THEN Die("exit1")
            ELSE /\ info' = FromJson(fs[file])
                 /\ old_name' = FromJson(fs[file]).old_name
                 /\ Goto("rn_rename")
       ELSE IF EndsWith(file, ".pncsum")
       THEN IF ~Exists(fs, file)
            THEN Die("exit1")
            ELSE Goto("rn_tcreate") /\ UNCHANGED <<info, old_name>>
       ELSE Goto("rn_rename") /\ UNCHANGED <<info, old_name>>

\* File::create(sfname.replace(".pncsum", ".tncsum"))
RenameTmpCreate ==
    /\ status = "run" /\ cmd = "Rename" /\ pc = "rn_tcreate"
    /\ UNCHANGED <<dirs, info, old_name, new_hash, out>>
    /\ IF ~CanCreate(dirs, TmpName(file))
       THEN UNCHANGED <<fs, pos>> /\ Die("exit1")
       ELSE /\ fs' = Create(fs, TmpName(file))
            /\ pos' = 1
            /\ Goto("rn_entry")

\* one pass of the reader loop: the header, the entry's bytes, finish()
RenameEntry ==
    /\ status = "run" /\ cmd = "Rename" /\ pc = "rn_entry"
    /\ UNCHANGED <<dirs, old_name, new_hash, out>>
    /\ LET arc == fs[file]
       IN  IF arc.kind # "cpio"
           THEN UNCHANGED <<fs, info, pos>> /\ Die("exit1")
           ELSE IF pos > Len(arc.entries)
           THEN /\ UNCHANGED <<fs, info, pos>>
                /\ IF arc.trailer THEN Goto("rn_verify") ELSE Die("exit1")
           ELSE LET e == arc.entries[pos]
                IN  IF EndsWith(e.name, ".ncsum")
                    THEN /\ UNCHANGED fs
                         /\ IF ~IsJson(e.data) \/ ~e.complete
                            THEN UNCHANGED <<info, pos>> /\ Die("exit1")
                            ELSE /\ info' = FromJson(e.data)
                                 /\ pos' = pos + 1
                                 /\ Goto("rn_entry")
                    ELSE /\ fs' = Put(fs, TmpName(file),
                                      Concat(fs[TmpName(file)], e.data))
                         /\ UNCHANGED info
                         /\ IF ~e.complete
                            THEN UNCHANGED pos /\ Die("exit1")
                            ELSE pos' = pos + 1 /\ Goto("rn_entry")

\* the temporary file taken without the comparison of the hashes
RenameVerifyUnchecked ==
    /\ status = "run" /\ cmd = "Rename" /\ pc = "rn_verify"
    /\ UNCHANGED <<dirs, new_hash, pos, out>>
    /\ LET t == TmpName(file)
       IN  IF InfoOutcome(fs, t) # "ok"
           THEN UNCHANGED <<fs, info, old_name>> /\ Die(InfoOutcome(fs, t))
           ELSE /\ old_name' = info.old_name
                /\ info' = [info EXCEPT !.new_name = t, !.ncsum_name = file]
                /\ UNCHANGED fs
                /\ Goto("rn_rename")

\* FileInfo::new on the temporary file and the comparison of the hashes
RenameVerify ==
    /\ status = "run" /\ cmd = "Rename" /\ pc = "rn_verify"
    /\ UNCHANGED <<dirs, new_hash, pos, out>>
    /\ LET t == TmpName(file)
       IN  IF InfoOutcome(fs, t) # "ok"
           THEN UNCHANGED <<fs, info, old_name>> /\ Die(InfoOutcome(fs, t))
           ELSE IF FileInfoNew(fs, t).hash # info.hash
           THEN /\ fs' = Remove(fs, FileInfoNew(fs, t).old_name)
                /\ UNCHANGED <<info, old_name>>
                /\ Die("exit1")
           ELSE /\ old_name' = info.old_name
                /\ info' = [info EXCEPT !.new_name = t, !.ncsum_name = file]
                /\ UNCHANGED fs
                /\ Goto("rn_rename")

\* std::fs::rename(info.new_name, old_name)
RenameRename ==
    /\ status = "run" /\ cmd = "Rename" /\ pc = "rn_rename"
    /\ UNCHANGED <<dirs, info, old_name, new_hash, pos, out>>
    /\ IF ~CanRename(fs, dirs, info.new_name, old_name)
       THEN UNCHANGED fs /\ Die("exit1")
       ELSE /\ fs' = FsRename(fs, info.new_name, old_name)
            /\ Goto("rn_remove")

\* std::fs::remove_file(info.ncsum_name)
RenameRemove ==
    /\ status = "run" /\ cmd = "Rename" /\ pc = "rn_remove"
    /\ UNCHANGED dirs
    /\ IF ~CanRemove(fs, info.ncsum_name)
       THEN UNCHANGED fs /\ Die("exit1")
       ELSE /\ fs' = Remove(fs, info.ncsum_name)
            /\ Done("ok", {})

(***************************************************************************)
(* Commands::Check                                                         *)
(***************************************************************************)
\* the reader loop of Check over the entries from index i on; st is
\* [ok, info, new_hash]: ok turns FALSE where the process would exit
RECURSIVE ScanArchive(_, _, _)
\* the reader taking the first entry for the record and the next for the
\* payload, whatever their names
ScanArchiveByPosition(arc, i, st) ==
    IF i > Len(arc.entries)
    THEN [st EXCEPT !.ok = arc.trailer]
    ELSE LET e == arc.entries[i]
         IN  IF i = 1
             THEN IF ~IsJson(e.data) \/ ~e.complete
                  THEN [st EXCEPT !.ok = FALSE]
                  ELSE ScanArchive(arc, i + 1, [st EXCEPT !.info = FromJson(e.data)])
             ELSE IF ~e.complete
                  THEN [st EXCEPT !.ok = FALSE]
                  ELSE ScanArchive(arc, i + 1, [st EXCEPT !.new_hash = GetHash(e.data)])

ScanArchive(arc, i, st) ==
    IF i > Len(arc.entries)
    THEN [st EXCEPT !.ok = arc.trailer]
    ELSE LET e == arc.entries[i]
         IN  IF EndsWith(e.name, ".ncsum")
             THEN IF ~IsJson(e.data) \/ ~e.complete
                  THEN [st EXCEPT !.ok = FALSE]
                  ELSE ScanArchive(arc, i + 1, [st EXCEPT !.info = FromJson(e.data)])
             ELSE IF ~e.complete
                  THEN [st EXCEPT !.ok = FALSE]
                  ELSE ScanArchive(arc, i + 1, [st EXCEPT !.new_hash = GetHash(e.data)])

CheckArchive(arc) ==
    IF arc.kind # "cpio"
    THEN [ok |-> FALSE, info |-> EmptyInfo, new_hash |-> ""]
    ELSE ScanArchive(arc, 1, [ok |-> TRUE, info |-> EmptyInfo, new_hash |-> ""])

\* the test of the first println! inverted
ReportInverted(recorded, recomputed, only_show_mismatches) ==
    (IF recorded = recomputed THEN {"mismatch"} ELSE {})
        \cup (IF ~only_show_mismatches THEN {"match"} ELSE {})

\* the lines printed for one input
Report(recorded, recomputed, only_show_mismatches) ==
    (IF recorded # recomputed THEN {"mismatch"} ELSE {})
        \cup (IF ~only_show_mismatches THEN {"match"} ELSE {})

\* the suffix filter, then the record and the recomputed hash
CheckBegin ==
    /\ status = "run" /\ cmd = "Check" /\ pc = "begin"
    /\ UNCHANGED <<fs, dirs, old_name, pos, out>>
    /\ IF ~EndsWithNcsum(file)
       THEN Done("skip", {})
       ELSE IF EndsWith(file, ".ncsum")
       THEN IF \/ ~Exists(fs, file)
               \/ ~IsJson(fs[file])
               \/ ~Exists(fs, FromJson(fs[file]).new_name)
            THEN UNCHANGED <<info, new_hash>> /\ Die("exit1")
            ELSE /\ info' = FromJson(fs[file])
                 /\ new_hash' = GetHash(fs[FromJson(fs[file]).new_name])
                 /\ Goto("ck_report")
       ELSE IF EndsWith(file, ".pncsum")
       THEN IF ~Exists(fs, file) \/ ~CheckArchive(fs[file]).ok
            THEN UNCHANGED <<info, new_hash>> /\ Die("exit1")
            ELSE /\ info' = CheckArchive(fs[file]).info
                 /\ new_hash' = CheckArchive(fs[file]).new_hash
                 /\ Goto("ck_report")
       ELSE Goto("ck_report") /\ UNCHANGED <<info, new_hash>>

\* the two println!
CheckReport ==
    /\ status = "run" /\ cmd = "Check" /\ pc = "ck_report"
    /\ out' = Report(info.hash, new_hash, opts.oo)
    /\ Goto("ck_separate")
    /\ UNCHANGED <<fs, dirs, info, old_name, new_hash, pos>>

\* the quarantine block opened by the flag alone
CheckSeparateByFlag ==
    /\ status = "run" /\ cmd = "Check" /\ pc = "ck_separate"
    /\ UNCHANGED <<fs, dirs>>
    /\ IF opts.sm
       THEN Goto("ck_mkdir") /\ UNCHANGED <<info, old_name, new_hash, pos, out>>
       ELSE Done("ok", out)

\* the test that opens the quarantine block
CheckSeparate ==
    /\ status = "run" /\ cmd = "Check" /\ pc = "ck_separate"
    /\ UNCHANGED <<fs, dirs>>
    /\ IF info.hash # new_hash /\ opts.sm
       THEN Goto("ck_mkdir") /\ UNCHANGED <<info, old_name, new_hash, pos, out>>
       ELSE Done("ok", out)

\* file.parent().join(info.hash)
QuarantineDir(f, i) == Join(Parent(f), <<i.hash>>)

RECURSIVE Ancestors(_)
Ancestors(p) == IF ~HasParent(p) THEN {p} ELSE {p} \cup Ancestors(Parent(p))

\* std::fs::create_dir_all(&sdir)
CheckMkdir ==
    /\ status = "run" /\ cmd = "Check" /\ pc = "ck_mkdir"
    /\ UNCHANGED <<fs, info, old_name, new_hash, pos, out>>
    /\ IF ~HasParent(file)
       THEN UNCHANGED dirs /\ Die("panic")
       ELSE IF Ancestors(QuarantineDir(file, info)) \cap DOMAIN fs # {}
       THEN UNCHANGED dirs /\ Die("exit1")
       ELSE /\ dirs' = dirs \cup Ancestors(QuarantineDir(file, info))
            /\ Goto("ck_move")

\* for a sidecar input, std::fs::rename(info.new_name, ofile)
CheckMoveContent ==
    /\ status = "run" /\ cmd = "Check" /\ pc = "ck_move"
    /\ UNCHANGED <<dirs, info, old_name, new_hash, pos, out>>
    /\ LET ofile == Join(QuarantineDir(file, info), info.new_name)
       IN  IF ~EndsWith(file, ".ncsum")
           THEN UNCHANGED fs /\ Goto("ck_move2")
           ELSE IF ~CanRename(fs, dirs, info.new_name, ofile)
           THEN UNCHANGED fs /\ Die("exit1")
           ELSE /\ fs' = FsRename(fs, info.new_name, ofile)
                /\ Goto("ck_move2")

\* std::fs::rename(file, nfile)
CheckMoveRecord ==
    /\ status = "run" /\ cmd = "Check" /\ pc = "ck_move2"
    /\ UNCHANGED dirs
    /\ LET nfile == Join(QuarantineDir(file, info), FileName(file))
       IN  IF ~CanRename(fs, dirs, file, nfile)
           THEN UNCHANGED fs /\ Die("exit1")
           ELSE /\ fs' = FsRename(fs, file, nfile)
                /\ Done("ok", out)

(***************************************************************************)
(* Commands::Pack                                                          *)
(***************************************************************************)
PackName(i) == Replace(i.ncsum_name, ".ncsum", ".pncsum")
PackTmpName(i) == Replace(i.ncsum_name, ".ncsum", ".tncsum")

\* the files the two archive entries are read from
RecordSource(f, i) == IF EndsWith(f, ".ncsum") THEN i.ncsum_name ELSE PackTmpName(i)
PayloadSource(f, i) == IF EndsWith(f, ".ncsum") THEN i.new_name ELSE i.old_name

\* the suffix dispatch; the .ncsum branch decodes the sidecar and opens the
\* two inputs, the other branch calls FileInfo::new
PackBegin ==
    /\ status = "run" /\ cmd = "Pack" /\ pc = "begin"
    /\ UNCHANGED <<fs, dirs, old_name, new_hash, pos, out>>
    /\ IF EndsWith(file, ".ncsum")
       THEN IF \/ ~Exists(fs, file)
               \/ ~IsJson(fs[file])
               \/ ~Exists(fs, FromJson(fs[file]).ncsum_name)
               \/ ~Exists(fs, FromJson(fs[file]).new_name)
            THEN UNCHANGED info /\ Die("exit1")
            ELSE info' = FromJson(fs[file]) /\ Goto("pk_create")
       ELSE IF ~EndsWith(file, ".pncsum")
       THEN IF InfoOutcome(fs, file) # "ok"
            THEN UNCHANGED info /\ Die(InfoOutcome(fs, file))
            ELSE info' = FileInfoNew(fs, file) /\ Goto("pk_tcreate")
       ELSE UNCHANGED info /\ Done("skip", {})

\* File::create(tname)
PackTmpCreate ==
    /\ status = "run" /\ cmd = "Pack" /\ pc = "pk_tcreate"
    /\ UNCHANGED <<dirs, info, old_name, new_hash, pos, out>>
    /\ IF ~CanCreate(dirs, PackTmpName(info))
       THEN UNCHANGED fs /\ Die("exit1")
       ELSE fs' = Create(fs, PackTmpName(info)) /\ Goto("pk_twrite")

\* tfile.write_all(json), flush, and the opening of the two inputs
PackTmpWrite ==
    /\ status = "run" /\ cmd = "Pack" /\ pc = "pk_twrite"
    /\ UNCHANGED <<dirs, info, old_name, new_hash, pos, out>>
    /\ fs' = Put(fs, PackTmpName(info), ToJson(info))
    /\ IF ~Exists(fs', info.old_name) THEN Die("exit1") ELSE Goto("pk_create")

\* File::create(pname)
PackCreate ==
    /\ status = "run" /\ cmd = "Pack" /\ pc = "pk_create"
    /\ UNCHANGED <<dirs, info, old_name, new_hash, pos, out>>
    /\ IF ~CanCreate(dirs, PackName(info))
       THEN UNCHANGED fs /\ Die("exit1")
       ELSE fs' = Create(fs, PackName(info)) /\ Goto("pk_write")

\* write_cpio.  An input that is the archive itself was cut to nothing by
\* File::create and grows while it is copied: the writer refuses the bytes
\* beyond the length it announced, and the archive stays unfinished.
PackWrite ==
    /\ status = "run" /\ cmd = "Pack" /\ pc = "pk_write"
    /\ UNCHANGED <<dirs, info, old_name, new_hash, pos, out>>
    /\ LET rec == CpioEntry(info.ncsum_name, fs[RecordSource(file, info)])
           pay == CpioEntry(info.new_name, fs[PayloadSource(file, info)])
       IN  IF PayloadSource(file, info) = PackName(info)
           THEN /\ fs' = Put(fs, PackName(info),
                             [kind |-> "cpio",
                              entries |-> <<rec, [pay EXCEPT !.complete = FALSE]>>,
                              trailer |-> FALSE])
                /\ Die("exit1")
           ELSE /\ fs' = Put(fs, PackName(info), Archive(rec, pay))
                /\ Goto("pk_rm1")

\* the first remove_file: the sidecar, or the original file
PackRemoveFirst ==
    /\ status = "run" /\ cmd = "Pack" /\ pc = "pk_rm1"
    /\ UNCHANGED <<dirs, info, old_name, new_hash, pos, out>>
    /\ LET p == IF EndsWith(file, ".ncsum") THEN info.ncsum_name ELSE info.old_name
       IN  IF ~CanRemove(fs, p)
           THEN UNCHANGED fs /\ Die("exit1")
           ELSE fs' = Remove(fs, p) /\ Goto("pk_rm2")

\* the second remove_file: the labeled file, or the temporary sidecar
PackRemoveSecond ==
    /\ status = "run" /\ cmd = "Pack" /\ pc = "pk_rm2"
    /\ UNCHANGED dirs
    /\ LET p == IF EndsWith(file, ".ncsum") THEN info.new_name ELSE PackTmpName(info)
       IN  IF ~CanRemove(fs, p)
           THEN UNCHANGED fs /\ Die("exit1")
           ELSE fs' = Remove(fs, p) /\ Done("ok", {})

(***************************************************************************)
(* The environment between invocations                                     *)
(***************************************************************************)
Event(name, p) ==
    [cmd |-> name, file |-> p, res |-> "env", out |-> {}, opts |-> NoOpts]

Happened(name) == \E i \in DOMAIN log : log[i].cmd = name

EnvFrame ==
    /\ fs0' = fs'
    /\ UNCHANGED <<dirs, cmd, opts, files, pc, info, old_name, new_hash, pos,
                   out, status, origPath, origContent, hvars>>

\* one byte of a file takes another value
Corrupt ==
    /\ status # "run"
    /\ Len(log) < MaxLog
    /\ ~Happened("Corrupt")
    /\ \E p \in DOMAIN fs :
          /\ fs[p].kind = "raw"
          /\ \E i \in DOMAIN fs[p].bytes : \E b \in Bytes \ {fs[p].bytes[i]} :
                fs' = Put(fs, p, Raw([fs[p].bytes EXCEPT ![i] = b]))
          /\ log' = Append(log, Event("Corrupt", p))
    /\ EnvFrame

\* the payload entry of an archive loses a suffix of its bytes: either the
\* entry is rewritten with the shorter length, or the file is cut inside it
Truncate ==
    /\ status # "run"
    /\ Len(log) < MaxLog
    /\ ~Happened("Truncate")
    /\ \E p \in DOMAIN fs :
          /\ fs[p].kind = "cpio"
          /\ fs[p].trailer
          /\ \E k \in DOMAIN fs[p].entries, cut \in BOOLEAN :
                LET e == fs[p].entries[k]
                IN  /\ ~EndsWith(e.name, ".ncsum")
                    /\ e.data.kind = "raw"
                    /\ \E n \in 0..(Len(e.data.bytes) - 1) :
                          LET short == [e EXCEPT !.data = Raw(SubSeq(e.data.bytes, 1, n)),
                                                 !.complete = ~cut]
                          IN  fs' = Put(fs, p,
                                  IF cut
                                  THEN [kind |-> "cpio",
                                        entries |-> Append(SubSeq(fs[p].entries, 1, k - 1), short),
                                        trailer |-> FALSE]
                                  ELSE [fs[p] EXCEPT !.entries[k] = short])
          /\ log' = Append(log, Event("Truncate", p))
    /\ EnvFrame

\* the two entries of a finished archive change places
Reorder ==
    /\ status # "run"
    /\ Len(log) < MaxLog
    /\ ~Happened("Reorder")
    /\ \E p \in DOMAIN fs :
          /\ fs[p].kind = "cpio"
          /\ fs[p].trailer
          /\ Len(fs[p].entries) = 2
          /\ \A k \in DOMAIN fs[p].entries : fs[p].entries[k].complete
          /\ fs' = Put(fs, p, [fs[p] EXCEPT !.entries =
                                  <<fs[p].entries[2], fs[p].entries[1]>>])
          /\ log' = Append(log, Event("Reorder", p))
    /\ EnvFrame

\* where a file lands when it is carried to the other directory
Elsewhere(p) ==
    IF Parent(p) = <<>> THEN Join(<<"d">>, FileName(p)) ELSE FileName(p)

\* a sidecar or a container is carried to the other directory
Move ==
    /\ status # "run"
    /\ Len(log) < MaxLog
    /\ ~Happened("Move")
    /\ \E p \in DOMAIN fs :
          /\ EndsWith(p, ".ncsum") \/ EndsWith(p, ".pncsum")
          /\ CanRename(fs, dirs, p, Elsewhere(p))
          /\ ~Exists(fs, Elsewhere(p))
          /\ fs' = FsRename(fs, p, Elsewhere(p))
          /\ log' = Append(log, Event("Move", p))
    /\ EnvFrame

\* the name of a second file beside p: the same directory and suffix
Twin(p) == [k \in DOMAIN p |-> IF p[k] = "a" THEN "b" ELSE p[k]]

\* the user's file, still under its name, is copied to a second name in the
\* same directory, with the same bytes or with one more byte
Copy ==
    /\ status # "run"
    /\ Len(log) < MaxLog
    /\ ~Happened("Copy")
    /\ Exists(fs, origPath)
    /\ fs[origPath] = origContent
    /\ ~Exists(fs, Twin(origPath))
    /\ \E more \in BOOLEAN :
          fs' = Put(fs, Twin(origPath),
                    IF more THEN Raw(Append(origContent.bytes, MaxByte))
                    ELSE origContent)
    /\ log' = Append(log, Event("Copy", origPath))
    /\ EnvFrame

(***************************************************************************)
(* Specifications                                                          *)
(***************************************************************************)
Next ==
    \/ Start
    \/ NameBegin \/ NameCreate \/ NameWrite \/ NameRename
    \/ RenameBegin \/ RenameTmpCreate \/ RenameEntry \/ RenameVerify
    \/ RenameRename \/ RenameRemove
    \/ CheckBegin \/ CheckReport \/ CheckSeparate \/ CheckMkdir \/ CheckMoveContent
    \/ CheckMoveRecord
    \/ PackBegin \/ PackTmpCreate \/ PackTmpWrite \/ PackCreate \/ PackWrite
    \/ PackRemoveFirst \/ PackRemoveSecond
    \/ Corrupt \/ Truncate \/ Reorder \/ Move \/ Copy

Spec == Init /\ [][Next]_vars

\* get_hash alone, over any stream and any sizes of the reads
HashStart ==
    /\ hstream \in SeqsUpTo(Bytes, MaxStream)
    /\ hoff = 0
    /\ hctx = <<>>
    /\ hreads = <<>>
    /\ hpc = "loop"
    /\ hdigest = ""
    /\ origPath = <<"a", ".txt">>
    /\ origContent = Raw(hstream)
    /\ fs = (origPath :> origContent)
    /\ dirs = {<<>>}
    /\ cmd = "none"
    /\ opts = NoOpts
    /\ files = <<>>
    /\ pc = "begin"
    /\ info = EmptyInfo
    /\ old_name = <<>>
    /\ new_hash = ""
    /\ pos = 0
    /\ out = {}
    /\ status = "idle"
    /\ log = <<>>
    /\ fs0 = fs

HashNext == (HashRead \/ HashEof) /\ UNCHANGED lvars

HashSpec == HashStart /\ [][HashNext]_vars

(***************************************************************************)
(* Properties of get_hash (HashSpec)                                       *)
(***************************************************************************)
\* C3: the digest get_hash returns depends on the bytes of the stream alone:
\* whatever sizes the reads had, it is the digest of the same bytes read with
\* every read filling the buffer.
DigestDeterministic ==
    hpc = "done" => hdigest = GetHash(Raw(hstream))

\* C4: what get_hash has fed to the digest function is exactly what it has
\* read from the stream, byte for byte, nothing added and nothing dropped.
FedIsContent ==
    hpc \in {"loop", "done"} => hctx = SubSeq(hstream, 1, hoff)

(***************************************************************************)
(* Properties of the lifecycle (Spec)                                      *)
(***************************************************************************)
\* no input is in flight: between inputs, or the process has ended
AtRest == status # "run" \/ pc = "begin"

\* the paths the data model derives from the user's file
OrigDigest == GetHash(origContent)
LabeledPath == Join(Parent(origPath), <<OrigDigest>> \o GetSuffix(origPath))
RecordPath == Join(Parent(origPath), <<OrigDigest, ".ncsum">>)
ContainerPath == Join(Parent(origPath), <<OrigDigest, ".pncsum">>)
TempPath == Join(Parent(origPath), <<OrigDigest, ".tncsum">>)

\* the i-th event of the history is subcommand c on input p
Ran(i, c, p) == i \in DOMAIN log /\ log[i].cmd = c /\ log[i].file = p

\* the user's file is back under its name with its bytes
Restored == Exists(fs, origPath) /\ fs[origPath] = origContent

\* C1: for a file whose name has a '.', Name on the file and then Rename on
\* the sidecar both succeed and leave the original bytes at the original
\* path, with no sidecar and no digest-named file.
RoundTripLabelRestore ==
    (/\ HasSuffix(origPath)
     /\ Len(log) = 2 /\ AtRest
     /\ Ran(1, "Name", origPath)
     /\ Ran(2, "Rename", RecordPath))
    => /\ log[1].res = "ok" /\ log[2].res = "ok"
       /\ Restored
       /\ ~Exists(fs, RecordPath)
       /\ ~Exists(fs, LabeledPath)

\* C2: Pack on the file, or Name and then Pack on the sidecar, followed by
\* Rename on the container, succeeds and leaves the original bytes at the
\* original path, with no container and no temporary file.
RoundTripBundleUnbundle ==
    (/\ HasSuffix(origPath)
     /\ AtRest
     /\ \/ /\ Len(log) = 2
           /\ Ran(1, "Pack", origPath)
           /\ Ran(2, "Rename", ContainerPath)
        \/ /\ Len(log) = 3
           /\ Ran(1, "Name", origPath) /\ log[1].res = "ok"
           /\ Ran(2, "Pack", RecordPath)
           /\ Ran(3, "Rename", ContainerPath))
    => /\ log[Len(log)].res = "ok"
       /\ Restored
       /\ ~Exists(fs, ContainerPath)
       /\ ~Exists(fs, TempPath)

\* the user's file went through Name into the Labeled state: the sidecar and
\* the labeled file are two files
FreshlyLabeled ==
    /\ HasSuffix(origPath)
    /\ LabeledPath # RecordPath
    /\ Ran(1, "Name", origPath)
    /\ log[1].res = "ok"

\* C5: Check on the sidecar right after Name reports no mismatch (and the
\* match line unless only_show_mismatches is set); Check after one byte of
\* the labeled file was changed reports the mismatch.
VerifyDetectsCorruption ==
    FreshlyLabeled =>
        /\ Ran(2, "Check", RecordPath) =>
              /\ log[2].res = "ok"
              /\ "mismatch" \notin log[2].out
              /\ ~log[2].opts.oo => "match" \in log[2].out
        /\ (Ran(2, "Corrupt", LabeledPath) /\ Ran(3, "Check", RecordPath)) =>
              "mismatch" \in log[3].out

\* Name, one changed byte in the labeled file, then Check reporting it
WitnessCorruptionDetected ==
    /\ FreshlyLabeled
    /\ Ran(2, "Corrupt", LabeledPath)
    /\ Ran(3, "Check", RecordPath)
    /\ "mismatch" \in log[3].out

\* C6: after Check has printed for an input, the match line is there only if
\* the recomputed digest equals the recorded one, and the mismatch line only
\* if they differ.
ReportAgreesWithComparison ==
    (cmd = "Check" /\ pc = "ck_separate") =>
        /\ "match" \in out => info.hash = new_hash
        /\ "mismatch" \in out => info.hash # new_hash

\* C7: Rename on the container of the user's file, after the payload entry
\* lost a suffix of its bytes, exits with 1 and leaves no file at the
\* original path.
TruncationDetected ==
    \A i \in DOMAIN log :
        (/\ HasSuffix(origPath)
         /\ AtRest
         /\ Len(log) = i + 1
         /\ \/ Ran(1, "Pack", origPath)
            \/ Ran(1, "Name", origPath) /\ Ran(2, "Pack", RecordPath)
         /\ Ran(i, "Truncate", ContainerPath)
         /\ Ran(i + 1, "Rename", ContainerPath))
        => /\ log[i + 1].res = "exit1"
           /\ ~Exists(fs, origPath)

\* C8: Name on a file whose name has no '.' never gets past FileInfo::new: it
\* panics, and the files are what they were when the input began.
LabelWithoutSuffixFails ==
    /\ \A i \in DOMAIN log :
          (log[i].cmd = "Name" /\ ~HasSuffix(log[i].file)) =>
              /\ log[i].res = "panic"
              /\ (Len(log) = i /\ status # "run") =>
                    (status = "panic" /\ fs = fs0 /\ pc = "begin")
    /\ (status = "run" /\ cmd = "Name" /\ ~HasSuffix(file)) =>
          (pc = "begin" /\ fs = fs0)

\* Name has failed on a file without a suffix, the file untouched
WitnessLabelWithoutSuffix ==
    /\ status = "panic"
    /\ cmd = "Name"
    /\ ~HasSuffix(file)
    /\ Ran(Len(log), "Name", file)
    /\ Exists(fs, file)
    /\ fs = fs0

IsFinalForm(p) == EndsWith(p, ".ncsum") \/ EndsWith(p, ".pncsum")

\* C9: Name on an input whose name ends in .ncsum or .pncsum is skipped: no
\* step after the guard runs, no file changes, no error.
LabelSkipsFinalForm ==
    /\ \A i \in DOMAIN log :
          (log[i].cmd = "Name" /\ IsFinalForm(log[i].file)) => log[i].res = "skip"
    /\ (status = "run" /\ cmd = "Name" /\ IsFinalForm(file)) =>
          (pc = "begin" /\ fs = fs0)

\* C10: Rename on an input whose name ends in neither .ncsum nor .pncsum
\* changes no file and raises no error; the process goes on.
RestoreSkipsUnrecognized ==
    /\ \A i \in DOMAIN log :
          (log[i].cmd = "Rename" /\ ~IsFinalForm(log[i].file)) =>
              log[i].res \in {"ok", "skip"}
    /\ (status = "run" /\ cmd = "Rename" /\ ~IsFinalForm(file)) => fs = fs0

\* C11: a mismatch that Check reports for an input does not end the process:
\* whatever the options, the input that printed the mismatch line finishes
\* with the loop going on to the next input (or to exit 0 after the last).
MismatchDoesNotStop ==
    \A i \in DOMAIN log :
        (log[i].cmd = "Check" /\ "mismatch" \in log[i].out) => log[i].res = "ok"

\* the last entry of the history after a step
LastOf(l) == l[Len(l)]

\* what one step of a running or ended process may do to the input list,
\* the history and the exit status
OrderStep ==
    /\ (status = "run" /\ log' = log) =>
          (status' = "run" /\ files' = files)
    /\ (status = "run" /\ log' # log) =>
          /\ log' = Append(log, LastOf(log'))
          /\ LastOf(log').file = Head(files)
          /\ \/ /\ LastOf(log').res \in {"ok", "skip"}
                /\ files' = Tail(files)
                /\ pc' = "begin"
                /\ status' = IF files' = <<>> THEN "ok" ELSE "run"
             \/ /\ LastOf(log').res \in {"exit1", "panic"}
                /\ status' = LastOf(log').res
                /\ files' = files
    /\ status \in {"exit1", "panic"} =>
          \/ log' = log /\ fs' = fs /\ dirs' = dirs
          \/ log' # log /\ LastOf(log').res = "env"

\* C12: the inputs are taken in the order given, one at a time; an input
\* that fails ends the process with status 1 or a panic, the inputs after it
\* are never begun, and nothing the process did before is undone: from then
\* on only a new invocation or the environment changes anything.
InOrderFatalStops == [][OrderStep]_vars

\* the first of two inputs has failed; the second was never begun
WitnessFatalStops ==
    /\ status = "exit1"
    /\ Len(files) = 2
    /\ Ran(Len(log), cmd, Head(files))
    /\ log[Len(log)].res = "exit1"

\* <parent of the input>/<recorded digest>
QuarantinePath == Join(Parent(origPath), <<OrigDigest>>)

\* C13: Check with separate_mismatches on the sidecar of a labeled file one
\* byte of which was changed succeeds and leaves the labeled file and the
\* sidecar directly inside <parent>/<digest>/, which now exists, and neither
\* of them where it was, whether or not the input has a directory part.
QuarantineDestination ==
    (/\ FreshlyLabeled
     /\ Len(log) = 3 /\ AtRest
     /\ Ran(2, "Corrupt", LabeledPath)
     /\ Ran(3, "Check", RecordPath)
     /\ log[3].opts.sm)
    => /\ log[3].res = "ok"
       /\ QuarantinePath \in dirs
       /\ Exists(fs, Join(QuarantinePath, FileName(LabeledPath)))
       /\ Exists(fs, Join(QuarantinePath, FileName(RecordPath)))
       /\ ~Exists(fs, LabeledPath)
       /\ ~Exists(fs, RecordPath)

\* C14: a step of Check changes a file or a directory only when
\* separate_mismatches is set and the recomputed digest differs from the
\* recorded one; otherwise, for sidecar and container inputs alike, the files
\* and directories are after the step what they were before it.
VerifyLeavesFiles ==
    [][(status = "run" /\ cmd = "Check" /\ (fs' # fs \/ dirs' # dirs))
          => (opts.sm /\ info.hash # new_hash)]_vars

\* Check with the flag set has verified the container of the user's file,
\* found a match, and the container is where it was
WitnessVerifyLeavesFiles ==
    /\ HasSuffix(origPath)
    /\ AtRest
    /\ Ran(Len(log), "Check", ContainerPath)
    /\ log[Len(log)].opts.sm
    /\ log[Len(log)].res = "ok"
    /\ "mismatch" \notin log[Len(log)].out
    /\ Exists(fs, ContainerPath)
    /\ fs[ContainerPath].kind = "cpio"

\* c is an encoded record of the user's file: its digest and its name
IsRecordOfOrig(c) ==
    /\ IsJson(c)
    /\ FromJson(c).hash = OrigDigest
    /\ FromJson(c).old_name = origPath

\* the Labeled state of the user's file
LabeledState ==
    /\ Exists(fs, LabeledPath) /\ fs[LabeledPath] = origContent
    /\ Exists(fs, RecordPath) /\ IsRecordOfOrig(fs[RecordPath])
    /\ ~Exists(fs, origPath)

\* the Bundled state of the user's file
BundledState ==
    /\ {p \in DOMAIN fs : EndsWith(p, ".pncsum")} = {ContainerPath}
    /\ fs[ContainerPath].kind = "cpio"
    /\ fs[ContainerPath].trailer
    /\ \E k \in DOMAIN fs[ContainerPath].entries :
          LET e == fs[ContainerPath].entries[k]
          IN  e.complete /\ IsRecordOfOrig(e.data)
    /\ \E k \in DOMAIN fs[ContainerPath].entries :
          LET e == fs[ContainerPath].entries[k]
          IN  e.complete /\ e.data = origContent
    /\ ~Exists(fs, origPath)
    /\ ~Exists(fs, LabeledPath)
    /\ ~Exists(fs, RecordPath)
    /\ ~Exists(fs, TempPath)

\* C15: after Name has succeeded on the user's file the Labeled state holds;
\* after Pack has succeeded, on the file or on its sidecar, the Bundled state
\* holds.
PostStates ==
    (HasSuffix(origPath) /\ AtRest) =>
        /\ (Len(log) = 1 /\ Ran(1, "Name", origPath) /\ log[1].res = "ok")
              => LabeledState
        /\ (\/ Len(log) = 1 /\ Ran(1, "Pack", origPath) /\ log[1].res = "ok"
            \/ /\ Len(log) = 2
               /\ Ran(1, "Name", origPath) /\ log[1].res = "ok"
               /\ Ran(2, "Pack", RecordPath) /\ log[2].res = "ok")
              => BundledState

\* C16: the container write_cpio has just finished holds two entries and the
\* trailer: first the record, named by the file name of the sidecar path and
\* holding the encoded record, then the payload, named by the file name of
\* the labeled path and holding raw bytes.
ContainerLayout ==
    (status = "run" /\ cmd = "Pack" /\ pc = "pk_rm1") =>
        LET arc == fs[PackName(info)]
        IN  /\ arc.kind = "cpio"
            /\ arc.trailer
            /\ Len(arc.entries) = 2
            /\ arc.entries[1].name = FileName(info.ncsum_name)
            /\ arc.entries[1].data = ToJson(info)
            /\ arc.entries[2].name = FileName(info.new_name)
            /\ arc.entries[2].data.kind = "raw"

\* the archive with its two entries in the other order
Swapped(arc) == [arc EXCEPT !.entries = <<arc.entries[2], arc.entries[1]>>]

\* C17: the reader gives the same result for both orders of the entries.
\* For every finished two-entry archive on disk, the loop of Check decodes
\* the same record and computes the same digest from the archive and from
\* the archive with its entries exchanged; and after the entries of the
\* container Pack wrote for the user's file have changed places, Check still
\* reports no mismatch and Rename still restores the file, as they do for
\* the order Pack wrote.
ReaderIgnoresOrder ==
    /\ \A p \in DOMAIN fs :
          (/\ fs[p].kind = "cpio"
           /\ fs[p].trailer
           /\ Len(fs[p].entries) = 2
           /\ \A k \in DOMAIN fs[p].entries : fs[p].entries[k].complete)
          => CheckArchive(Swapped(fs[p])) = CheckArchive(fs[p])
    /\ (/\ HasSuffix(origPath)
        /\ Len(log) = 3 /\ AtRest
        /\ Ran(1, "Pack", origPath) /\ log[1].res = "ok"
        /\ Ran(2, "Reorder", ContainerPath))
       => /\ Ran(3, "Check", ContainerPath) =>
                (log[3].res = "ok" /\ "mismatch" \notin log[3].out)
          /\ Ran(3, "Rename", ContainerPath) =>
                /\ log[3].res = "ok"
                /\ Restored
                /\ ~Exists(fs, ContainerPath)
                /\ ~Exists(fs, TempPath)

\* Pack, the entries exchanged, then Rename bringing the file back
WitnessReaderIgnoresOrder ==
    /\ HasSuffix(origPath)
    /\ Ran(1, "Pack", origPath)
    /\ Ran(2, "Reorder", ContainerPath)
    /\ Ran(3, "Rename", ContainerPath)
    /\ log[3].res = "ok"
    /\ Restored

\* but for path t, the files are those the current input began with
UntouchedBut(t) ==
    \A p \in (DOMAIN fs \cup DOMAIN fs0) \ {t} :
        p \in DOMAIN fs /\ p \in DOMAIN fs0 /\ fs[p] = fs0[p]

\* C18: while Rename works on a container, or after it has failed on it,
\* nothing but the temporary file differs from the files the input began
\* with until the digest of the temporary file has been recomputed and found
\* equal to the recorded one: the rename to the original name is only ever
\* about to happen, or done, with a file of the recorded digest.  When the
\* digests differ the process has exited with 1, the temporary file is gone
\* and the container and every other file are as they were.
RestoreAfterVerification ==
    (/\ status \in {"run", "exit1", "panic"}
     /\ cmd = "Rename"
     /\ EndsWith(file, ".pncsum"))
    => /\ pc \in {"begin", "rn_tcreate", "rn_entry", "rn_verify"} =>
             UntouchedBut(TmpName(file))
       /\ (pc = "rn_verify" /\ status # "run") =>
             (status = "exit1" /\ ~Exists(fs, TmpName(file)))
       /\ (pc = "rn_rename" /\ status = "run") =>
             /\ UntouchedBut(TmpName(file))
             /\ Exists(fs, TmpName(file))
             /\ GetHash(fs[TmpName(file)]) = info.hash
       /\ pc = "rn_remove" =>
             /\ Exists(fs, old_name)
             /\ GetHash(fs[old_name]) = info.hash
             /\ Exists(fs, file) /\ fs[file] = fs0[file]

\* Rename has found the extracted bytes to differ from the recorded digest:
\* exit 1, no temporary file, the container in place
WitnessRestoreRejected ==
    /\ status = "exit1"
    /\ cmd = "Rename"
    /\ EndsWith(file, ".pncsum")
    /\ pc = "rn_verify"
    /\ Happened("Truncate")
    /\ Exists(fs, file)
    /\ ~Exists(fs, TmpName(file))

\* a fully written record of the user's file is on disk: a sidecar, or the
\* record entry of a finished container
RecordOnDisk ==
    \E p \in DOMAIN fs :
        \/ IsRecordOfOrig(fs[p])
        \/ /\ fs[p].kind = "cpio"
           /\ fs[p].trailer
           /\ \A k \in DOMAIN fs[p].entries : fs[p].entries[k].complete
           /\ \E k \in DOMAIN fs[p].entries : IsRecordOfOrig(fs[p].entries[k].data)

\* Name or Pack on the user's file, or Pack on its sidecar after Name, is at
\* some step, has finished or has failed
LabelOrBundle ==
    \/ /\ log = <<>> /\ status = "run"
       /\ cmd \in {"Name", "Pack"} /\ file = origPath
    \/ /\ Len(log) = 1 /\ status # "run"
       /\ Ran(1, "Name", origPath) \/ Ran(1, "Pack", origPath)
    \/ /\ Len(log) = 1 /\ status = "run"
       /\ Ran(1, "Name", origPath) /\ log[1].res = "ok"
       /\ cmd = "Pack" /\ file = RecordPath
    \/ /\ Len(log) = 2 /\ status # "run"
       /\ Ran(1, "Name", origPath) /\ log[1].res = "ok"
       /\ Ran(2, "Pack", RecordPath)

\* C19: at every step of Name and Pack on the user's file, and wherever they
\* stop, either the bytes are still under the original name or a fully
\* written record of the digest and the original name is on disk.
NameNeverLost ==
    LabelOrBundle => (Restored \/ RecordOnDisk)

\* C20: whatever the invocations and the events before, every file that the
\* input being processed has written or renamed so far lies in the parent
\* directory of that input, or in the quarantine directory under it.
StaysInParent ==
    status = "run" =>
        \A p \in DOMAIN fs :
            (p \notin DOMAIN fs0 \/ fs[p] # fs0[p]) =>
                \/ Parent(p) = Parent(file)
                \/ Parent(p) = QuarantineDir(file, info)

\* C23: Name on the digest-named file of a freshly labeled file leaves the
\* sidecar recording the original path, and Rename on the sidecar after that
\* brings the file back under its original name.
RelabelKeepsName ==
    (/\ FreshlyLabeled
     /\ AtRest
     /\ Ran(2, "Name", LabeledPath))
    => /\ Len(log) = 2 =>
             (Exists(fs, RecordPath) /\ IsRecordOfOrig(fs[RecordPath]))
       /\ (Len(log) = 3 /\ Ran(3, "Rename", RecordPath)) => Restored

\* the bytes of the user's file are whole in some file: a plain file, or an
\* entry of a finished archive
ContentOnDisk ==
    \E p \in DOMAIN fs :
        \/ fs[p] = origContent
        \/ /\ fs[p].kind = "cpio"
           /\ fs[p].trailer
           /\ \A k \in DOMAIN fs[p].entries : fs[p].entries[k].complete
           /\ \E k \in DOMAIN fs[p].entries : fs[p].entries[k].data = origContent

\* C22: as long as the environment has not damaged or duplicated anything,
\* every state of every run of Name, Rename, Pack and Check over the user's
\* file, a state at rest, in the middle of an input or after a failure,
\* keeps the bytes of the file whole somewhere on disk.
ContentNeverLost ==
    (~Happened("Corrupt") /\ ~Happened("Truncate") /\ ~Happened("Copy"))
        => ContentOnDisk

\* the second file of the user, beside the first
TwinPath == Twin(origPath)

\* a fully written record naming q as the original path is on disk
RecordOnDiskFor(q) ==
    \E p \in DOMAIN fs :
        \/ IsJson(fs[p]) /\ FromJson(fs[p]).old_name = q
        \/ /\ fs[p].kind = "cpio"
           /\ fs[p].trailer
           /\ \A k \in DOMAIN fs[p].entries : fs[p].entries[k].complete
           /\ \E k \in DOMAIN fs[p].entries :
                 /\ IsJson(fs[p].entries[k].data)
                 /\ FromJson(fs[p].entries[k].data).old_name = q

\* C21: after Name, or Pack, has succeeded on each of two files of one
\* directory with one suffix, whatever their bytes, each of the two names
\* still has its record on disk.
InputsDoNotInterfere ==
    (/\ HasSuffix(origPath)
     /\ Len(log) = 3 /\ AtRest
     /\ Ran(1, "Copy", origPath)
     /\ log[2].cmd \in {"Name", "Pack"} /\ log[3].cmd = log[2].cmd
     /\ {log[2].file, log[3].file} = {origPath, TwinPath}
     /\ log[2].res = "ok" /\ log[3].res = "ok")
    => (RecordOnDiskFor(origPath) /\ RecordOnDiskFor(TwinPath))

====
